---- MODULE Spec2Model ----
(***************************************************************************)
(* Model of the pytorch_runner training session                            *)
(* (learning/pytorch_runner/trainer.py): one TrainingSession driven by     *)
(* main(), the configuration file it loads (config.py), the event log file *)
(* it appends to, the checkpoint directory it writes to, the process       *)
(* environment and the wall clock.                                         *)
(*                                                                         *)
(* Representation of values                                                *)
(*  - a string that the code inspects (a device name, a path, a number in  *)
(*    a configuration file) is a sequence of one-character strings, so     *)
(*    that startswith, split, Path and int are computed;                   *)
(*  - a loss is a record: [kind |-> "pow099", n |-> k] is the float got    *)
(*    from 1.0 by k multiplications by 0.99, [kind |-> "mse", n |-> j] is  *)
(*    the j-th of the values a real backend may return;                    *)
(*  - a time is the whole-second reading of the clock.                     *)
(***************************************************************************)
EXTENDS Integers, Sequences, FiniteSets, TLC

\* ---------------------------------------------------------------- bounds
\* Largest step count of a configuration (indices 0 and 10 are logged).
MaxSteps == 11
\* Last reading of the clock.
MaxTime == 1
\* Number of distinct loss values the real backend may return.
MaxRealLoss == 2

VARIABLES
    pc,                    \* position of main()/run()
    error,                 \* "none" or the exception that left run()
    ctx,                   \* RunnerContext
    TORCH_AVAILABLE,       \* module constant set by the import probe
    cuda_available,        \* torch.cuda.is_available()
    environ,               \* os.environ["CUDA_VISIBLE_DEVICES"]
    device,                \* torch.device of _run_torch
    step,                  \* loop variable of _run_torch / _simulate
    loss,                  \* loss of the running loop
    log_file,              \* lines of ctx.log_file
    log_base,              \* number of lines of log_file when the session was built
    log_parent_exists,     \* ctx.log_file.parent exists
    checkpoint_dir_exists, \* ctx.config.checkpoint_dir exists
    checkpoint_files,      \* files of checkpoint_dir: name -> content
    written,               \* names of the files this session wrote, in order
    now,                   \* time.time(), whole seconds
    config_file,           \* args.config: its path and its content
    cwd,                   \* working directory of the process
    other_written,         \* files a second session wrote to checkpoint_dir
    last_write             \* the session that wrote to checkpoint_dir last

vars == << pc, error, ctx, TORCH_AVAILABLE, cuda_available, environ, device,
           step, loss, log_file, log_base, log_parent_exists,
           checkpoint_dir_exists, checkpoint_files, written, now,
           config_file, cwd, other_written, last_write >>

\* ------------------------------------------------------------ device names
Cpu == << "c", "p", "u" >>
Cuda == << "c", "u", "d", "a" >>
Cuda1 == << "c", "u", "d", "a", ":", "1" >>
Unset == << "unset" >>

\* str.startswith
StartsWith(s, prefix) ==
    /\ Len(s) >= Len(prefix)
    /\ SubSeq(s, 1, Len(prefix)) = prefix

\* ":" in preferred
HasColon(s) == \E i \in 1..Len(s) : s[i] = ":"

\* Position of the first ":" at or after position from, Len(s) + 1 if none.
RECURSIVE NextColon(_, _)
NextColon(s, from) ==
    IF from > Len(s) THEN Len(s) + 1
    ELSE IF s[from] = ":" THEN from
    ELSE NextColon(s, from + 1)

\* preferred.split(":")[1], for a string that holds a ":"
SplitSecond(s) ==
    LET first == NextColon(s, 1)
        second == NextColon(s, first + 1)
    IN SubSeq(s, first + 1, second - 1)

\* ------------------------------------------------------------------ losses
One == [kind |-> "pow099", n |-> 0]

\* loss *= 0.99
Mul099(l) == [kind |-> "pow099", n |-> l.n + 1]

RealLosses == { [kind |-> "mse", n |-> j] : j \in 1..MaxRealLoss }

\* ------------------------------------------------------------- the log
\* TrainingSession._log: the record appended to the file.
LogRecord(event, payload) ==
    [event |-> event, timestamp |-> now, payload |-> payload]

\* Mutant: the file is opened with mode "w", the earlier lines are lost.
Log_truncating(file, event, payload) == << LogRecord(event, payload) >>

\* Mutant: the file is rewritten with the new record in front.
Log_prepending(file, event, payload) == << LogRecord(event, payload) >> \o file

Log(file, event, payload) == Append(file, LogRecord(event, payload))

\* The records this session appended to its log file.
SessionLog == SubSeq(log_file, log_base + 1, Len(log_file))

\* ------------------------------------------------------------ checkpoints
CheckpointId(t) == << "checkpoint-", t >>

MetaPath(id) == << id, ".meta.json" >>

\* Mutant: training_step is the last loop index instead of the step count.
Meta_LastIndex ==
    [ id |-> CheckpointId(now),
      model |-> "pytorch_runner_stub",
      created_at |-> now,
      training_step |-> ctx.config.steps - 1,
      devices |-> ctx.devices,
      notes |-> ctx.config.notes ]

Meta ==
    [ id |-> CheckpointId(now),
      model |-> "pytorch_runner_stub",
      created_at |-> now,
      training_step |-> ctx.config.steps,
      devices |-> ctx.devices,
      notes |-> ctx.config.notes ]

\* Content of a file opened for writing whose json.dump did not finish.
Truncated == [ id |-> << "truncated" >> ]

\* Mutant: a file that exists is left as it is.
WriteFile_keep(files, name, content) ==
    [ n \in DOMAIN files \cup { name } |->
        IF n \in DOMAIN files THEN files[n] ELSE content ]

\* f[name] := content, adding name to the directory when it is new
WriteFile(files, name, content) ==
    [ n \in DOMAIN files \cup { name } |->
        IF n = name THEN content ELSE files[n] ]

NoFiles == [ n \in {} |-> Truncated ]

\* ------------------------------------------------------- paths (pathlib)
\* The components of the string s from position from on, split at "/".
RECURSIVE SplitSlash(_, _, _)
SplitSlash(s, from, cur) ==
    IF from > Len(s) THEN << cur >>
    ELSE IF s[from] = "/" THEN << cur >> \o SplitSlash(s, from + 1, << >>)
    ELSE SplitSlash(s, from + 1, Append(cur, s[from]))

\* A sequence without its empty and "." components.
RECURSIVE DropEmpty(_)
DropEmpty(parts) ==
    IF parts = << >> THEN << >>
    ELSE IF Head(parts) = << >> \/ Head(parts) = << "." >>
         THEN DropEmpty(Tail(parts))
         ELSE << Head(parts) >> \o DropEmpty(Tail(parts))

\* Path(value)
Path(s) ==
    [ abs |-> Len(s) > 0 /\ s[1] = "/",
      parts |-> DropEmpty(SplitSlash(s, 1, << >>)) ]

\* Path.is_absolute
is_absolute(p) == p.abs

\* Path.parent
Parent(p) ==
    [ abs |-> p.abs,
      parts |-> IF p.parts = << >> THEN << >>
                ELSE SubSeq(p.parts, 1, Len(p.parts) - 1) ]

\* a / b
Join(a, b) ==
    IF b.abs THEN b ELSE [ abs |-> a.abs, parts |-> a.parts \o b.parts ]

\* The components of an absolute path with every ".." applied.
RECURSIVE Collapse(_, _)
Collapse(done, rest) ==
    IF rest = << >> THEN done
    ELSE IF Head(rest) = << ".", "." >>
         THEN Collapse(IF done = << >> THEN << >>
                       ELSE SubSeq(done, 1, Len(done) - 1), Tail(rest))
         ELSE Collapse(Append(done, Head(rest)), Tail(rest))

\* Path.resolve in the working directory dir (a file system without links)
Resolve(p, dir) ==
    [ abs |-> TRUE, parts |-> Collapse(<< >>, Join(dir, p).parts) ]

\* Mutant: a relative value is resolved against the working directory.
_resolve_cwd(base, value, dir) ==
    IF is_absolute(Path(value)) THEN Path(value)
    ELSE Resolve(Path(value), dir)

\* TrainingConfig._resolve
_resolve(base, value, dir) ==
    IF is_absolute(Path(value)) THEN Path(value)
    ELSE Resolve(Join(Parent(base), Path(value)), dir)

\* ------------------------------------------------ configuration (config.py)
\* JSON values: [t |-> "int", v |-> n], [t |-> "float", milli |-> n] for the
\* number n / 1000, [t |-> "str", s |-> characters], [t |-> "null"].
JInt(n) == [t |-> "int", v |-> n]
JFloat(n) == [t |-> "float", milli |-> n]
JStr(s) == [t |-> "str", s |-> s]
JNull == [t |-> "null"]

Digits == { "0", "1", "2", "3", "4", "5", "6", "7", "8", "9" }

DigitValue(c) ==
    CASE c = "0" -> 0 [] c = "1" -> 1 [] c = "2" -> 2 [] c = "3" -> 3
      [] c = "4" -> 4 [] c = "5" -> 5 [] c = "6" -> 6 [] c = "7" -> 7
      [] c = "8" -> 8 [] c = "9" -> 9

\* The number written by a non-empty sequence of digits.
RECURSIVE DigitsValue(_)
DigitsValue(s) ==
    IF Len(s) = 1 THEN DigitValue(s[1])
    ELSE 10 * DigitsValue(SubSeq(s, 1, Len(s) - 1)) + DigitValue(s[Len(s)])

IsDigits(s) == Len(s) > 0 /\ \A i \in 1..Len(s) : s[i] \in Digits

\* n / 1000 rounded towards zero
TruncMilli(n) == IF n >= 0 THEN n \div 1000 ELSE -((-n) \div 1000)

\* int(x): [ok |-> TRUE, v |-> n], or [ok |-> FALSE] for ValueError/TypeError
py_int(j) ==
    CASE j.t = "int" -> [ok |-> TRUE, v |-> j.v]
      [] j.t = "float" -> [ok |-> TRUE, v |-> TruncMilli(j.milli)]
      [] j.t = "str" ->
           IF IsDigits(j.s) THEN [ok |-> TRUE, v |-> DigitsValue(j.s)]
           ELSE IF Len(j.s) > 1 /\ j.s[1] = "-" /\ IsDigits(Tail(j.s))
           THEN [ok |-> TRUE, v |-> -DigitsValue(Tail(j.s))]
           ELSE [ok |-> FALSE]
      [] OTHER -> [ok |-> FALSE]

\* float(x), in thousandths
py_float(j) ==
    CASE j.t = "int" -> [ok |-> TRUE, v |-> 1000 * j.v]
      [] j.t = "float" -> [ok |-> TRUE, v |-> j.milli]
      [] j.t = "str" ->
           IF IsDigits(j.s) THEN [ok |-> TRUE, v |-> 1000 * DigitsValue(j.s)]
           ELSE IF Len(j.s) > 1 /\ j.s[1] = "-" /\ IsDigits(Tail(j.s))
           THEN [ok |-> TRUE, v |-> -1000 * DigitsValue(Tail(j.s))]
           ELSE [ok |-> FALSE]
      [] OTHER -> [ok |-> FALSE]

\* dict.get(key, default)
Get(obj, key, default) == IF key \in DOMAIN obj THEN obj[key] ELSE default

\* TrainingConfig._load_json: the object of the file, ok = FALSE when
\* json.load raises
_load_json(file) == file.json

\* TrainingConfig.from_file: [ok |-> TRUE, config |-> c], or [ok |-> FALSE]
\* when a statement of it raises
from_file(file, dir) ==
    LET loaded == _load_json(file)
        data == loaded.obj
        steps == py_int(Get(data, "steps", JInt(100)))
        batch_size == py_int(Get(data, "batch_size", JInt(32)))
        learning_rate == py_float(Get(data, "learning_rate", JFloat(1)))
        input_dim == py_int(Get(data, "input_dim", JInt(128)))
        output_dim == py_int(Get(data, "output_dim", JInt(64)))
        hidden_dim == py_int(Get(data, "hidden_dim", JInt(128)))
    IN IF ~loaded.ok THEN [ok |-> FALSE]
       ELSE IF "dataset_index" \notin DOMAIN data
               \/ data["dataset_index"].t # "str"
       THEN [ok |-> FALSE]
       ELSE IF "checkpoint_dir" \notin DOMAIN data
               \/ data["checkpoint_dir"].t # "str"
       THEN [ok |-> FALSE]
       ELSE IF ~(/\ steps.ok /\ batch_size.ok /\ learning_rate.ok
                 /\ input_dim.ok /\ output_dim.ok /\ hidden_dim.ok)
       THEN [ok |-> FALSE]
       ELSE [ ok |-> TRUE,
              config |->
                [ dataset_index |->
                    _resolve(file.path, data["dataset_index"].s, dir),
                  checkpoint_dir |->
                    _resolve(file.path, data["checkpoint_dir"].s, dir),
                  steps |-> steps.v,
                  batch_size |-> batch_size.v,
                  learning_rate |-> learning_rate.v,
                  input_dim |-> input_dim.v,
                  output_dim |-> output_dim.v,
                  hidden_dim |-> hidden_dim.v,
                  notes |-> Get(data, "notes", JNull) ] ]

\* The configuration of a context whose file is not loaded yet.
NoConfig == [ loaded |-> FALSE ]

\* ------------------------------------------------------------------- Init
DeviceLists ==
    { << >>, << Cpu >>, << Cuda >>, << Cuda1, Cpu >>, << Cpu, Cuda1 >> }

\* A log file left by an earlier session (steps = 0, simulated backend).
PriorLog ==
    << [event |-> "session_start", timestamp |-> 0,
        payload |-> [profile |-> "prod", devices |-> << >>]],
       [event |-> "checkpoint", timestamp |-> 0,
        payload |-> [meta |-> MetaPath(CheckpointId(0))]],
       [event |-> "session_complete", timestamp |-> 0,
        payload |-> [e \in {} |-> 0]] >>

\* The checkpoint file of that earlier session.
PriorFiles ==
    WriteFile(NoFiles, MetaPath(CheckpointId(0)),
              [ id |-> CheckpointId(0), model |-> "pytorch_runner_stub",
                created_at |-> 0, training_step |-> 0, devices |-> << >>,
                notes |-> JNull ])

\* Strings of configuration files: "d/i", "../d", "/a/../b", "c", "x".
S_data == << "d", "/", "i" >>
S_up == << ".", ".", "/", "d" >>
S_abs == << "/", "a", "/", ".", ".", "/", "b" >>
S_ckpt == << "c" >>
S_bad == << "x" >>

\* Paths of configuration files, "/e/r", "k/r" and "r", and working
\* directories, "/w" and "/h/u".
ConfigPaths ==
    { Path(<< "/", "e", "/", "r" >>), Path(<< "k", "/", "r" >>),
      Path(<< "r" >>) }

WorkingDirs == { Path(<< "/", "w" >>), Path(<< "/", "h", "/", "u" >>) }

\* The content of a file that json.load parses to the object obj.
Parsed(obj) == [ ok |-> TRUE, obj |-> obj ]

\* The content of a file that json.load rejects.
Malformed == [ ok |-> FALSE ]

RequiredKeys ==
    ("dataset_index" :> JStr(S_data)) @@ ("checkpoint_dir" :> JStr(S_ckpt))

\* The configuration files of the sessions that are run: every step count
\* up to MaxSteps, and files that fail to load or hold unusual values.
RunFiles ==
    { Parsed(RequiredKeys @@ ("steps" :> JInt(n))) : n \in -1..MaxSteps }
    \cup
    { Malformed,
      Parsed("checkpoint_dir" :> JStr(S_ckpt)),
      Parsed("dataset_index" :> JStr(S_data)),
      Parsed(RequiredKeys @@ ("steps" :> JStr(S_bad))),
      Parsed(RequiredKeys @@ ("steps" :> JNull)),
      Parsed(RequiredKeys @@ ("steps" :> JInt(1)) @@ ("batch_size" :> JInt(0))),
      Parsed(RequiredKeys @@ ("steps" :> JStr(<< "1" >>))
                          @@ ("notes" :> JStr(S_bad))) }

Init ==
    /\ pc = "main"
    /\ error = "none"
    /\ config_file \in [ path : { Path(<< "/", "e", "/", "r" >>) },
                         json : RunFiles ]
    /\ cwd = Path(<< "/", "w" >>)
    /\ ctx \in [ config : { NoConfig },
                 devices : DeviceLists,
                 profile : { "prod" } ]
    /\ TORCH_AVAILABLE \in BOOLEAN
    /\ cuda_available \in (IF TORCH_AVAILABLE THEN BOOLEAN ELSE { FALSE })
    /\ environ \in { Unset, << "7" >> }
    /\ device = "none"
    /\ step = 0
    /\ loss = One
    /\ \E prior \in BOOLEAN :
         /\ log_file = (IF prior THEN PriorLog ELSE << >>)
         /\ log_parent_exists = prior
         /\ checkpoint_dir_exists = prior
         /\ checkpoint_files = (IF prior THEN PriorFiles ELSE NoFiles)
    /\ log_base = Len(log_file)
    /\ written = << >>
    /\ now = 0
    /\ other_written = << >>
    /\ last_write = "none"

\* ---------------------------------------------------------------- actions
\* Mutant: the loop runs one iteration too many.
InRange_inclusive(i, steps) == i <= steps

\* Mutant: the loop stops one iteration early.
InRange_short(i, steps) == i < steps - 1

\* for step in range(steps): the loop has another iteration to run
InRange(i, steps) == i < steps

\* Mutant: a step event every 5th iteration.
ShouldLogStep_every5(i) == i % 5 = 0

\* Mutant: the first iteration is not logged.
ShouldLogStep_skipFirst(i) == i % 10 = 0 /\ i # 0

\* if step % 10 == 0
ShouldLogStep(i) == i % 10 = 0

\* An exception leaves run(): nothing after the raising statement executes.
Raise(kind) == error' = kind

\* Mutant: the session is built, and its log directory made, before the
\* configuration is loaded.
LoadConfig_afterMkdir ==
    /\ pc = "main"
    /\ error = "none"
    /\ log_parent_exists' = TRUE
    /\ LET r == from_file(config_file, cwd)
       IN IF r.ok
          THEN /\ ctx' = [ctx EXCEPT !.config = r.config]
               /\ pc' = "init"
               /\ UNCHANGED error
          ELSE /\ Raise("ConfigError")
               /\ UNCHANGED << pc, ctx >>
    /\ UNCHANGED << TORCH_AVAILABLE, cuda_available, environ, device, step,
                    loss, log_file, log_base,
                    checkpoint_dir_exists, checkpoint_files, written, now,
                    config_file, cwd, other_written, last_write >>

\* main() up to the RunnerContext: TrainingConfig.from_file(args.config)
LoadConfig ==
    /\ pc = "main"
    /\ error = "none"
    /\ LET r == from_file(config_file, cwd)
       IN IF r.ok
          THEN /\ ctx' = [ctx EXCEPT !.config = r.config]
               /\ pc' = "init"
               /\ UNCHANGED error
          ELSE /\ Raise("ConfigError")
               /\ UNCHANGED << pc, ctx >>
    /\ UNCHANGED << TORCH_AVAILABLE, cuda_available, environ, device, step,
                    loss, log_file, log_base, log_parent_exists,
                    checkpoint_dir_exists, checkpoint_files, written, now,
                    config_file, cwd, other_written, last_write >>

\* TrainingSession.__init__
Construct ==
    /\ UNCHANGED << config_file, cwd, other_written, last_write >>
    /\ pc = "init"
    /\ error = "none"
    /\ \/ /\ log_parent_exists' = TRUE
          /\ pc' = "start"
          /\ UNCHANGED error
       \/ /\ ~log_parent_exists
          /\ Raise("IOError")
          /\ UNCHANGED << pc, log_parent_exists >>
    /\ UNCHANGED << ctx, TORCH_AVAILABLE, cuda_available, environ, device,
                    step, loss, log_file, log_base, checkpoint_dir_exists,
                    checkpoint_files, written, now >>

\* Mutant: the accelerator is taken without asking whether one is available.
select_torch_device_nocheck(devices, cuda, env) ==
    IF /\ Len(devices) > 0
       /\ StartsWith(devices[1], Cuda)
    THEN [ ret |-> "cuda:0",
           environ |-> IF HasColon(devices[1]) THEN SplitSecond(devices[1])
                       ELSE << "0" >> ]
    ELSE [ ret |-> "cpu", environ |-> env ]

\* Mutant: the first accelerator of the list is taken, wherever it stands.
select_torch_device_anyEntry(devices, cuda, env) ==
    IF cuda /\ \E i \in 1..Len(devices) : StartsWith(devices[i], Cuda)
    THEN LET i == CHOOSE k \in 1..Len(devices) :
                     /\ StartsWith(devices[k], Cuda)
                     /\ \A m \in 1..(k - 1) : ~StartsWith(devices[m], Cuda)
         IN [ ret |-> "cuda:0",
              environ |-> IF HasColon(devices[i]) THEN SplitSecond(devices[i])
                          ELSE << "0" >> ]
    ELSE [ ret |-> "cpu", environ |-> env ]

\* TrainingSession._select_torch_device: the returned device name and the
\* value of CUDA_VISIBLE_DEVICES it leaves.
select_torch_device(devices, cuda, env) ==
    IF /\ Len(devices) > 0
       /\ StartsWith(devices[1], Cuda)
       /\ cuda
    THEN [ ret |-> "cuda:0",
           environ |-> IF HasColon(devices[1]) THEN SplitSecond(devices[1])
                       ELSE << "0" >> ]
    ELSE [ ret |-> "cpu", environ |-> env ]

\* run(): the session_start record and the choice of the backend
RunStart ==
    /\ UNCHANGED << config_file, cwd, other_written, last_write >>
    /\ pc = "start"
    /\ error = "none"
    /\ \/ /\ log_parent_exists
          /\ log_file' = Log(log_file, "session_start",
                             [profile |-> ctx.profile, devices |-> ctx.devices])
          /\ pc' = IF TORCH_AVAILABLE THEN "torch_setup" ELSE "simulate"
          /\ step' = 0
          /\ loss' = One
          /\ UNCHANGED error
       \/ /\ Raise("IOError")
          /\ UNCHANGED << pc, step, loss, log_file >>
    /\ UNCHANGED << ctx, TORCH_AVAILABLE, cuda_available, environ, device,
                    log_base, log_parent_exists, checkpoint_dir_exists,
                    checkpoint_files, written, now >>

\* _run_torch up to the loop: device selection, model, optimizer
TorchSetup ==
    /\ UNCHANGED << config_file, cwd, other_written, last_write >>
    /\ pc = "torch_setup"
    /\ error = "none"
    /\ LET sel == select_torch_device(ctx.devices, cuda_available, environ)
       IN /\ environ' = sel.environ
          /\ device' = sel.ret
          /\ IF sel.ret = "cuda:0" /\ ~cuda_available
             THEN /\ Raise("DeviceUnavailable")
                  /\ UNCHANGED pc
             ELSE \/ /\ pc' = "torch_loop"
                     /\ UNCHANGED error
                  \/ /\ Raise("BackendError")
                     /\ UNCHANGED pc
    /\ UNCHANGED << ctx, TORCH_AVAILABLE, cuda_available, step, loss,
                    log_file, log_base, log_parent_exists,
                    checkpoint_dir_exists, checkpoint_files, written, now >>

\* Mutant: a backend error in the loop saves a checkpoint before it is raised.
TorchStep_checkpointOnError ==
    /\ UNCHANGED << config_file, cwd, other_written >>
    /\ pc = "torch_loop"
    /\ error = "none"
    /\ InRange(step, ctx.config.steps)
    /\ \/ /\ Raise("BackendError")
          /\ checkpoint_dir_exists' = TRUE
          /\ checkpoint_files' = WriteFile(checkpoint_files, MetaPath(Meta.id), Meta)
          /\ written' = Append(written, MetaPath(Meta.id))
          /\ last_write' = "self"
          /\ log_file' = Log(log_file, "checkpoint", [meta |-> MetaPath(Meta.id)])
          /\ UNCHANGED << step, loss >>
       \/ \E l \in RealLosses :
            /\ loss' = l
            /\ IF ShouldLogStep(step)
               THEN \/ /\ log_file' = Log(log_file, "step",
                                          [step |-> step, loss |-> l])
                       /\ step' = step + 1
                       /\ UNCHANGED error
                    \/ /\ Raise("IOError")
                       /\ UNCHANGED << step, log_file >>
               ELSE /\ step' = step + 1
                    /\ UNCHANGED << error, log_file >>
            /\ UNCHANGED << checkpoint_dir_exists, checkpoint_files, written,
                            last_write >>
    /\ UNCHANGED << pc, ctx, TORCH_AVAILABLE, cuda_available, environ, device,
                    log_base, log_parent_exists, now >>

\* One iteration of the loop of _run_torch
TorchStep ==
    /\ UNCHANGED << config_file, cwd, other_written, last_write >>
    /\ pc = "torch_loop"
    /\ error = "none"
    /\ InRange(step, ctx.config.steps)
    /\ \/ /\ Raise("BackendError")
          /\ UNCHANGED << step, loss, log_file >>
       \/ \E l \in RealLosses :
            /\ loss' = l
            /\ IF ShouldLogStep(step)
               THEN \/ /\ log_file' = Log(log_file, "step",
                                          [step |-> step, loss |-> l])
                       /\ step' = step + 1
                       /\ UNCHANGED error
                    \/ /\ Raise("IOError")
                       /\ UNCHANGED << step, log_file >>
               ELSE /\ step' = step + 1
                    /\ UNCHANGED << error, log_file >>
    /\ UNCHANGED << pc, ctx, TORCH_AVAILABLE, cuda_available, environ, device,
                    log_base, log_parent_exists, checkpoint_dir_exists,
                    checkpoint_files, written, now >>

\* Mutant: the loss is logged before it is multiplied.
Simulate_LogBeforeMul ==
    /\ UNCHANGED << config_file, cwd, other_written, last_write >>
    /\ pc = "simulate"
    /\ error = "none"
    /\ InRange(step, ctx.config.steps)
    /\ loss' = Mul099(loss)
    /\ IF ShouldLogStep(step)
       THEN \/ /\ log_file' = Log(log_file, "step",
                                  [step |-> step, loss |-> loss,
                                   simulated |-> TRUE])
               /\ step' = step + 1
               /\ UNCHANGED error
            \/ /\ Raise("IOError")
               /\ UNCHANGED << step, log_file >>
       ELSE /\ step' = step + 1
            /\ UNCHANGED << error, log_file >>
    /\ UNCHANGED << pc, ctx, TORCH_AVAILABLE, cuda_available, environ, device,
                    log_base, log_parent_exists, checkpoint_dir_exists,
                    checkpoint_files, written, now >>

\* One iteration of the loop of _simulate
Simulate ==
    /\ UNCHANGED << config_file, cwd, other_written, last_write >>
    /\ pc = "simulate"
    /\ error = "none"
    /\ InRange(step, ctx.config.steps)
    /\ loss' = Mul099(loss)
    /\ IF ShouldLogStep(step)
       THEN \/ /\ log_file' = Log(log_file, "step",
                                  [step |-> step, loss |-> loss',
                                   simulated |-> TRUE])
               /\ step' = step + 1
               /\ UNCHANGED error
            \/ /\ Raise("IOError")
               /\ UNCHANGED << step, log_file >>
       ELSE /\ step' = step + 1
            /\ UNCHANGED << error, log_file >>
    /\ UNCHANGED << pc, ctx, TORCH_AVAILABLE, cuda_available, environ, device,
                    log_base, log_parent_exists, checkpoint_dir_exists,
                    checkpoint_files, written, now >>

\* Mutant: the checkpoint record is logged before the file is written.
WriteCheckpoint_logFirst ==
    /\ UNCHANGED << config_file, cwd, other_written >>
    /\ pc \in { "torch_loop", "simulate" }
    /\ error = "none"
    /\ ~InRange(step, ctx.config.steps)
    /\ log_file' = Log(log_file, "checkpoint", [meta |-> MetaPath(Meta.id)])
    /\ \/ /\ Raise("IOError")
          /\ UNCHANGED << pc, checkpoint_dir_exists, checkpoint_files,
                          written, last_write >>
       \/ /\ checkpoint_dir_exists' = TRUE
          /\ checkpoint_files' =
               WriteFile(checkpoint_files, MetaPath(Meta.id), Meta)
          /\ written' = Append(written, MetaPath(Meta.id))
          /\ last_write' = "self"
          /\ pc' = "complete"
          /\ UNCHANGED error
    /\ UNCHANGED << ctx, TORCH_AVAILABLE, cuda_available, environ, device,
                    step, loss, log_base, log_parent_exists, now >>

\* Mutant: the session stays in the loop after the checkpoint is written.
WriteCheckpoint_again ==
    /\ UNCHANGED << config_file, cwd, other_written >>
    /\ pc \in { "torch_loop", "simulate" }
    /\ error = "none"
    /\ ~InRange(step, ctx.config.steps)
    /\ checkpoint_dir_exists' = TRUE
    /\ checkpoint_files' = WriteFile(checkpoint_files, MetaPath(Meta.id), Meta)
    /\ written' = Append(written, MetaPath(Meta.id))
    /\ last_write' = "self"
    /\ log_file' = Log(log_file, "checkpoint", [meta |-> MetaPath(Meta.id)])
    /\ pc' \in { pc, "complete" }
    /\ UNCHANGED << error, ctx, TORCH_AVAILABLE, cuda_available, environ,
                    device, step, loss, log_base, log_parent_exists, now >>

\* The loop is exhausted: _write_checkpoint
WriteCheckpoint ==
    /\ UNCHANGED << config_file, cwd, other_written >>
    /\ pc \in { "torch_loop", "simulate" }
    /\ error = "none"
    /\ ~InRange(step, ctx.config.steps)
    /\ LET meta_path == MetaPath(Meta.id)
       IN \/ \* mkdir fails
             /\ ~checkpoint_dir_exists
             /\ Raise("IOError")
             /\ UNCHANGED << pc, log_file, checkpoint_dir_exists,
                             checkpoint_files, written, last_write >>
          \/ \* open fails
             /\ checkpoint_dir_exists' = TRUE
             /\ Raise("IOError")
             /\ UNCHANGED << pc, log_file, checkpoint_files, written,
                             last_write >>
          \/ \* json.dump fails
             /\ checkpoint_dir_exists' = TRUE
             /\ checkpoint_files' = WriteFile(checkpoint_files, meta_path, Truncated)
             /\ written' = Append(written, meta_path)
             /\ last_write' = "self"
             /\ Raise("IOError")
             /\ UNCHANGED << pc, log_file >>
          \/ \* the file is written, the checkpoint record is not
             /\ checkpoint_dir_exists' = TRUE
             /\ checkpoint_files' = WriteFile(checkpoint_files, meta_path, Meta)
             /\ written' = Append(written, meta_path)
             /\ last_write' = "self"
             /\ Raise("IOError")
             /\ UNCHANGED << pc, log_file >>
          \/ /\ checkpoint_dir_exists' = TRUE
             /\ checkpoint_files' = WriteFile(checkpoint_files, meta_path, Meta)
             /\ written' = Append(written, meta_path)
             /\ last_write' = "self"
             /\ log_file' = Log(log_file, "checkpoint", [meta |-> meta_path])
             /\ pc' = "complete"
             /\ UNCHANGED error
    /\ UNCHANGED << ctx, TORCH_AVAILABLE, cuda_available, environ, device,
                    step, loss, log_base, log_parent_exists, now >>

\* Mutant: session_complete is logged in a finally clause, after a failure
\* of the run too.
RunComplete_finally ==
    /\ UNCHANGED << config_file, cwd, other_written, last_write >>
    /\ pc \notin { "main", "init", "done" }
    /\ pc = "complete" \/ error # "none"
    /\ log_file = << >> \/ log_file[Len(log_file)].event # "session_complete"
    /\ log_file' = Log(log_file, "session_complete", [e \in {} |-> 0])
    /\ pc' = IF error = "none" THEN "done" ELSE pc
    /\ UNCHANGED << error, ctx, TORCH_AVAILABLE, cuda_available, environ,
                    device, step, loss, log_base, log_parent_exists,
                    checkpoint_dir_exists, checkpoint_files, written, now >>

\* Mutant: run() returns without the session_complete record.
RunComplete_silent ==
    /\ UNCHANGED << config_file, cwd, other_written, last_write >>
    /\ pc = "complete"
    /\ error = "none"
    /\ pc' = "done"
    /\ UNCHANGED << error, ctx, TORCH_AVAILABLE, cuda_available, environ,
                    device, step, loss, log_file, log_base, log_parent_exists,
                    checkpoint_dir_exists, checkpoint_files, written, now >>

\* Mutant: the session starts over after session_complete.
RunComplete_restart ==
    /\ UNCHANGED << config_file, cwd, other_written, last_write >>
    /\ pc = "complete"
    /\ error = "none"
    /\ log_file' = Log(log_file, "session_complete", [e \in {} |-> 0])
    /\ pc' = "start"
    /\ UNCHANGED << error, ctx, TORCH_AVAILABLE, cuda_available, environ,
                    device, step, loss, log_base, log_parent_exists,
                    checkpoint_dir_exists, checkpoint_files, written, now >>

\* run(): the session_complete record
RunComplete ==
    /\ UNCHANGED << config_file, cwd, other_written, last_write >>
    /\ pc = "complete"
    /\ error = "none"
    /\ \/ /\ log_file' = Log(log_file, "session_complete", [e \in {} |-> 0])
          /\ pc' = "done"
          /\ UNCHANGED error
       \/ /\ Raise("IOError")
          /\ UNCHANGED << pc, log_file >>
    /\ UNCHANGED << ctx, TORCH_AVAILABLE, cuda_available, environ, device,
                    step, loss, log_base, log_parent_exists,
                    checkpoint_dir_exists, checkpoint_files, written, now >>

\* The clock passes a whole second while the session runs.
Tick ==
    /\ UNCHANGED << config_file, cwd, other_written, last_write >>
    /\ now < MaxTime
    /\ error = "none"
    /\ pc # "done"
    /\ now' = now + 1
    /\ UNCHANGED << pc, error, ctx, TORCH_AVAILABLE, cuda_available, environ,
                    device, step, loss, log_file, log_base, log_parent_exists,
                    checkpoint_dir_exists, checkpoint_files, written >>

Next ==
    \/ LoadConfig
    \/ Construct
    \/ RunStart
    \/ TorchSetup
    \/ TorchStep
    \/ Simulate
    \/ WriteCheckpoint
    \/ RunComplete
    \/ Tick

Spec == Init /\ [][Next]_vars

\* ------------------------------- two sessions on one checkpoint directory
\* The context of the second session: another configuration file (notes
\* "o"), its own log file, the same checkpoint_dir.
OtherCtx ==
    [ config |-> [ steps |-> 0, notes |-> JStr(<< "o" >>) ],
      devices |-> << >>,
      profile |-> "prod" ]

\* The metadata the second session builds when it reaches _write_checkpoint.
OtherMeta ==
    [ id |-> CheckpointId(now),
      model |-> "pytorch_runner_stub",
      created_at |-> now,
      training_step |-> OtherCtx.config.steps,
      devices |-> OtherCtx.devices,
      notes |-> OtherCtx.config.notes ]

\* _write_checkpoint of the second session, up to the written file
OtherWriteCheckpoint ==
    /\ other_written = << >>
    /\ checkpoint_dir_exists' = TRUE
    /\ checkpoint_files' =
         WriteFile(checkpoint_files, MetaPath(OtherMeta.id), OtherMeta)
    /\ other_written' = << [ name |-> MetaPath(OtherMeta.id), at |-> now ] >>
    /\ last_write' = "other"
    /\ UNCHANGED << pc, error, ctx, TORCH_AVAILABLE, cuda_available, environ,
                    device, step, loss, log_file, log_base, log_parent_exists,
                    written, now, config_file, cwd >>

\* Sessions of at most one step, next to a second session.
TwoInit ==
    /\ Init
    /\ config_file.json \in
         { Parsed(RequiredKeys @@ ("steps" :> JInt(n))) : n \in 0..1 }

TwoNext == Next \/ OtherWriteCheckpoint

TwoSpec == TwoInit /\ [][TwoNext]_vars

\* ---------------------------------------- TrainingConfig.from_file alone
\* Values a numeric key of a configuration file may hold; Absent stands for
\* a key the file does not hold.
Absent == [t |-> "absent"]

With(obj, key, j) == IF j = Absent THEN obj ELSE obj @@ (key :> j)

ConfigFiles ==
    { Parsed(With(With(With(
          ("dataset_index" :> JStr(d)) @@ ("checkpoint_dir" :> JStr(c)),
          "steps", st), "batch_size", b), "learning_rate", lr)) :
        d \in { S_data, S_up, S_abs },
        c \in { S_ckpt, S_abs },
        st \in { Absent, JInt(-1), JInt(0), JStr(<< "1", "2" >>),
                 JFloat(2500), JStr(S_bad), JNull },
        b \in { Absent, JInt(0), JInt(4) },
        lr \in { Absent, JInt(-1), JFloat(0), JFloat(5) } }
    \cup { Malformed,
           Parsed("checkpoint_dir" :> JStr(S_ckpt)),
           Parsed("dataset_index" :> JStr(S_data)) }

\* main() called on any of these files, from any of the working directories.
ConfigInit ==
    /\ pc = "main"
    /\ error = "none"
    /\ config_file \in [ path : ConfigPaths, json : ConfigFiles ]
    /\ cwd \in WorkingDirs
    /\ ctx = [ config |-> NoConfig, devices |-> << >>, profile |-> "prod" ]
    /\ TORCH_AVAILABLE = FALSE
    /\ cuda_available = FALSE
    /\ environ = Unset
    /\ device = "none"
    /\ step = 0
    /\ loss = One
    /\ log_file = << >>
    /\ log_parent_exists = FALSE
    /\ checkpoint_dir_exists = FALSE
    /\ checkpoint_files = NoFiles
    /\ log_base = 0
    /\ written = << >>
    /\ now = 0
    /\ other_written = << >>
    /\ last_write = "none"

ConfigNext == LoadConfig

ConfigSpec == ConfigInit /\ [][ConfigNext]_vars

\* A step of the session itself (not of the clock).
SessionStep ==
    \/ LoadConfig
    \/ Construct
    \/ RunStart
    \/ TorchSetup
    \/ TorchStep
    \/ Simulate
    \/ WriteCheckpoint
    \/ RunComplete

\* Execution is single-threaded and sequential, and every backend call and
\* every write returns: the statement the session is at is eventually run.
FairSpec == Spec /\ WF_vars(SessionStep)

TypeOK ==
    /\ pc \in { "main", "init", "start", "torch_setup", "torch_loop",
                "simulate", "complete", "done" }
    /\ error \in { "none", "ConfigError", "IOError", "BackendError",
                   "DeviceUnavailable" }
    /\ step \in 0..(MaxSteps + 1)
    /\ now \in 0..MaxTime

\* ------------------------------------------------- reading the session log
\* Positions of the session's records that carry the event name e.
Positions(e) == { i \in 1..Len(SessionLog) : SessionLog[i].event = e }

Count(e) == Cardinality(Positions(e))

\* The session's records that are step events.
StepRecords == { SessionLog[i] : i \in Positions("step") }

\* The sequence of event names of the session's records.
EventNames == [ i \in 1..Len(SessionLog) |-> SessionLog[i].event ]

\* run() returned normally.
Returned == pc = "done" /\ error = "none"

\* run() raised.
Failed == error # "none" /\ pc \notin { "main", "init" }

Simulated == ~TORCH_AVAILABLE

\* The content of the files this session wrote.
WrittenMeta == { checkpoint_files[written[i]] : i \in 1..Len(written) }

\* C1: a run of a configuration with steps >= 0 that returns normally, on
\* either backend, has appended exactly one session_start, one checkpoint and
\* one session_complete record, in that order, session_complete being the
\* last record of the log.
C1_OneStartCheckpointComplete ==
    (Returned /\ ctx.config.steps >= 0) =>
        /\ Count("session_start") = 1
        /\ Count("checkpoint") = 1
        /\ Count("session_complete") = 1
        /\ \A s \in Positions("session_start"), c \in Positions("checkpoint"),
              e \in Positions("session_complete") :
                s < c /\ c < e /\ e = Len(SessionLog)

C1_Witness ==
    /\ Returned
    /\ ctx.config.steps = MaxSteps
    /\ TORCH_AVAILABLE
    /\ Count("step") = 2
    /\ log_base > 0

\* 1.0 multiplied by 0.99 i times
RECURSIVE Pow099(_)
Pow099(i) == IF i <= 0 THEN One ELSE Mul099(Pow099(i - 1))

\* C2 as stated: on the simulated path the step event of index i carries the
\* loss 1.0 x 0.99^i (1.0 at index 0).
C2_LossIsPowI ==
    Simulated => \A r \in StepRecords : r.payload.loss = Pow099(r.payload.step)

\* C2 amended: on the simulated path the step event of index i carries the
\* loss 1.0 x 0.99^(i+1): the loss is multiplied before it is logged, so the
\* event of index 0 carries 0.99 and the event of index 10 carries 0.99^11.
C2_LossIsPowIPlus1 ==
    Simulated =>
        \A r \in StepRecords : r.payload.loss = Pow099(r.payload.step + 1)

C2_Witness ==
    /\ Simulated
    /\ \E r \in StepRecords : r.payload.step = 0 /\ r.payload.loss = Mul099(One)
    /\ \E r \in StepRecords : r.payload.step = 10 /\ r.payload.loss = Pow099(11)

\* C3: on the simulated path every step event carries an index that is a
\* multiple of 10 with 0 <= index < steps.
C3_StepIndicesMultiplesOf10 ==
    Simulated =>
        \A r \in StepRecords :
            /\ r.payload.step % 10 = 0
            /\ 0 <= r.payload.step
            /\ r.payload.step < ctx.config.steps

C3_Witness ==
    /\ Returned
    /\ Simulated
    /\ ctx.config.steps = 11
    /\ { r.payload.step : r \in StepRecords } = { 0, 10 }

\* C4: every checkpoint metadata record the session wrote has training_step
\* equal to the configured step count, on both backends and for steps = 0.
C4_TrainingStepIsSteps ==
    \A m \in WrittenMeta :
        m # Truncated => m.training_step = ctx.config.steps

C4_Witness ==
    /\ Returned
    /\ TORCH_AVAILABLE
    /\ ctx.config.steps = 0
    /\ \E m \in WrittenMeta : m # Truncated /\ m.training_step = 0

\* C5: a run with steps = 0 that returns normally has appended exactly
\* session_start, checkpoint, session_complete, no step event, and its
\* checkpoint metadata has training_step 0.
C5_ZeroSteps ==
    (Returned /\ ctx.config.steps = 0) =>
        /\ EventNames = << "session_start", "checkpoint", "session_complete" >>
        /\ Count("step") = 0
        /\ Len(written) = 1
        /\ \A m \in WrittenMeta : m # Truncated /\ m.training_step = 0

C5_Witness ==
    /\ Returned
    /\ ctx.config.steps = 0
    /\ Simulated
    /\ Len(SessionLog) = 3

\* Place of an event name in the order of execution.
Rank(e) ==
    CASE e = "session_start" -> 0
      [] e = "step" -> 1
      [] e = "checkpoint" -> 2
      [] e = "session_complete" -> 3
      [] OTHER -> 4

\* C6: at every point of a run the session's records are in execution order:
\* session_start first, then the step events with strictly increasing
\* indices, then checkpoint, then session_complete.
C6_ExecutionOrder ==
    /\ Len(SessionLog) > 0 => SessionLog[1].event = "session_start"
    /\ \A i, j \in 1..Len(SessionLog) :
         i < j =>
            /\ Rank(SessionLog[i].event) <= Rank(SessionLog[j].event)
            /\ Rank(SessionLog[j].event) <= 3
            /\ Rank(SessionLog[i].event) = Rank(SessionLog[j].event) =>
                 /\ SessionLog[i].event = "step"
                 /\ SessionLog[i].payload.step < SessionLog[j].payload.step

C6_Witness ==
    /\ Returned
    /\ EventNames = << "session_start", "step", "step",
                       "checkpoint", "session_complete" >>
    /\ SessionLog[2].payload.step = 0
    /\ SessionLog[3].payload.step = 10

\* run() raised inside an iteration of the training loop.
FailedInLoop ==
    /\ error # "none"
    /\ pc \in { "torch_loop", "simulate" }
    /\ step < ctx.config.steps

\* C7: a run that fails in the training loop (backend error or failed write
\* of a step event) leaves session_start followed by step events only:
\* neither a checkpoint nor a session_complete record.
C7_FailedLoopLog ==
    FailedInLoop =>
        /\ Len(SessionLog) >= 1
        /\ SessionLog[1].event = "session_start"
        /\ \A i \in 2..Len(SessionLog) : SessionLog[i].event = "step"
        /\ Count("checkpoint") = 0
        /\ Count("session_complete") = 0

C7_Witness ==
    /\ FailedInLoop
    /\ error = "BackendError"
    /\ step = 10
    /\ EventNames = << "session_start", "step" >>

\* C8 as stated: no run that fails leaves a checkpoint metadata file, the
\* failed write of the checkpoint or session_complete record included.
C8_NoFileAfterFailure ==
    Failed => written = << >>

\* C8 amended: a session writes its checkpoint metadata file at most once,
\* only after the training loop has run all its iterations, and exactly once
\* when run() returns; a run that fails before the checkpoint write (at
\* session_start, in the backend or at a step event) leaves no file, while a
\* run that fails while or after writing the file (json.dump, the checkpoint
\* record, the session_complete record) leaves the file in the directory.
C8_FileOnlyAfterLoop ==
    /\ Len(written) <= 1
    /\ Returned => Len(written) = 1
    /\ written # << >> =>
         /\ pc \in { "torch_loop", "simulate", "complete", "done" }
         /\ ~(step < ctx.config.steps)
         /\ \A i \in 1..Len(written) : written[i] \in DOMAIN checkpoint_files
    /\ (Failed /\ (pc \in { "start", "torch_setup" } \/ step < ctx.config.steps))
         => written = << >>

C8_Witness ==
    /\ Failed
    /\ pc = "complete"
    /\ Len(written) = 1
    /\ ctx.config.steps = 11

\* The first device-list entry names an accelerator and none is available.
AcceleratorMissing ==
    /\ Len(ctx.devices) > 0
    /\ StartsWith(ctx.devices[1], Cuda)
    /\ ~cuda_available

\* C9: when the first device-list entry names an accelerator and none is
\* available, device selection raises nothing, the run executes on the
\* default device, and a run that returns has logged checkpoint and
\* session_complete.
C9_FallbackToDefaultDevice ==
    AcceleratorMissing =>
        /\ error # "DeviceUnavailable"
        /\ (TORCH_AVAILABLE /\ pc \in { "torch_loop", "complete", "done" })
             => device = "cpu"
        /\ Returned => Count("checkpoint") = 1 /\ Count("session_complete") = 1

C9_Witness ==
    /\ AcceleratorMissing
    /\ TORCH_AVAILABLE
    /\ Returned
    /\ device = "cpu"
    /\ Count("checkpoint") = 1
    /\ Count("session_complete") = 1

\* Phase of the session: Start 0, Executing 1, CheckpointWritten 2, Complete 3
PhaseOf(p) ==
    CASE p \in { "main", "init", "start" } -> 0
      [] p \in { "torch_setup", "torch_loop", "simulate" } -> 1
      [] p = "complete" -> 2
      [] p = "done" -> 3

\* C10: the phase only advances along Start -> Executing ->
\* CheckpointWritten -> Complete; once the checkpoint is written the loop
\* does not run again and no second checkpoint is written.
C10_PhaseOnlyAdvances ==
    [][ /\ PhaseOf(pc') >= PhaseOf(pc)
        /\ PhaseOf(pc') <= PhaseOf(pc) + 1
        /\ written # << >> => (step' = step /\ written' = written) ]_vars

C10_Witness ==
    /\ Returned
    /\ TORCH_AVAILABLE
    /\ ctx.config.steps = MaxSteps
    /\ Len(written) = 1

\* Number of iterations range(steps) yields.
Iterations(steps) == IF steps < 0 THEN 0 ELSE steps

\* C11: when every backend call and every write returns, the session
\* eventually reaches Complete (session_complete logged) or a fatal failure,
\* and a run that returns has performed exactly `steps` iterations of the
\* loop.
C11_Terminates ==
    /\ <>(Returned \/ error # "none")
    /\ [](Returned =>
            /\ step = Iterations(ctx.config.steps)
            /\ Count("session_complete") = 1)

C11_Witness ==
    /\ Returned
    /\ ctx.config.steps = MaxSteps
    /\ step = MaxSteps
    /\ Simulated

\* from_file returned a configuration.
Loaded == pc # "main"

\* C12 as stated: every configuration from_file returns has batch_size,
\* learning_rate, input_dim, output_dim and hidden_dim positive and
\* steps >= 0; a file with a non-positive value yields no configuration.
C12_ConfigPositive ==
    Loaded =>
        /\ ctx.config.batch_size > 0
        /\ ctx.config.learning_rate > 0
        /\ ctx.config.input_dim > 0
        /\ ctx.config.output_dim > 0
        /\ ctx.config.hidden_dim > 0
        /\ ctx.config.steps >= 0

\* A file of the kinds that do not load: malformed, without dataset_index
\* or checkpoint_dir, or with a step count that is no number.
BadFile(f) ==
    \/ ~f.json.ok
    \/ "dataset_index" \notin DOMAIN f.json.obj
    \/ "checkpoint_dir" \notin DOMAIN f.json.obj
    \/ /\ "steps" \in DOMAIN f.json.obj
       /\ f.json.obj["steps"] \in { JNull, JStr(S_bad) }

\* C13: a configuration that fails to load fails before any session state
\* exists: no TrainingSession is built, the parent directory of the log file
\* is not made, no log record is appended and no checkpoint file is written.
C13_ConfigFailureBeforeSession ==
    /\ [](BadFile(config_file) => pc = "main")
    /\ [](error = "ConfigError" =>
            /\ BadFile(config_file)
            /\ pc = "main"
            /\ ctx.config = NoConfig
            /\ SessionLog = << >>
            /\ written = << >>)
    /\ [][pc = "main" =>
            UNCHANGED << log_file, log_parent_exists, checkpoint_files,
                         checkpoint_dir_exists, written >>]_vars

C13_Witness ==
    /\ error = "ConfigError"
    /\ config_file.json.ok
    /\ "dataset_index" \notin DOMAIN config_file.json.obj
    /\ ~log_parent_exists
    /\ log_file = << >>
    /\ checkpoint_files = NoFiles

\* The absolute directory that holds the file of path p.
DirOf(p) == Resolve(Parent(p), cwd)

\* The value a path key of the loaded configuration must have.
Expected(key) ==
    LET v == Path(config_file.json.obj[key].s)
    IN IF v.abs THEN v
       ELSE [ abs |-> TRUE,
              parts |-> Collapse(<< >>, DirOf(config_file.path).parts \o v.parts) ]

\* C15: a relative dataset_index (or checkpoint_dir) resolves to the
\* directory containing the configuration file joined with the value,
\* whatever the working directory of the process, and an absolute value is
\* returned unchanged.
C15_RelativeToConfigFile ==
    Loaded =>
        /\ ctx.config.dataset_index = Expected("dataset_index")
        /\ ctx.config.checkpoint_dir = Expected("checkpoint_dir")
        /\ \A key \in { "dataset_index", "checkpoint_dir" }, d \in WorkingDirs :
             config_file.path.abs =>
                ctx.config[key] = _resolve(config_file.path,
                                           config_file.json.obj[key].s, d)

C15_Witness ==
    /\ Loaded
    /\ config_file.path = Path(<< "k", "/", "r" >>)
    /\ cwd = Path(<< "/", "w" >>)
    /\ config_file.json.obj["dataset_index"].s = S_up
    /\ ctx.config.dataset_index = [ abs |-> TRUE, parts |-> << << "w" >>, << "d" >> >> ]
    /\ config_file.json.obj["checkpoint_dir"].s = S_abs
    /\ ctx.config.checkpoint_dir =
         [ abs |-> TRUE, parts |-> << << "a" >>, << ".", "." >>, << "b" >> >> ]

\* The second at which this session wrote its checkpoint: the time of its
\* checkpoint record.
MyWriteTime == SessionLog[CHOOSE i \in Positions("checkpoint") : TRUE].timestamp

\* Both sessions have written their checkpoint metadata completely.
BothWrote ==
    /\ Len(written) = 1
    /\ Count("checkpoint") = 1
    /\ Len(other_written) = 1

\* C14: two sessions that share a checkpoint directory and write their
\* checkpoints within the same whole second derive the same identifier and
\* file name; of the two only one file exists and it holds the metadata of
\* the session that wrote last. Sessions that write in different seconds
\* leave two distinct files, each with its own metadata.
C14_SameSecondCollision ==
    BothWrote =>
        LET mine == written[1]
            theirs == other_written[1].name
        IN IF MyWriteTime = other_written[1].at
           THEN /\ mine = theirs
                /\ Cardinality({ mine, theirs } \cap DOMAIN checkpoint_files) = 1
                /\ checkpoint_files[mine].id = CheckpointId(MyWriteTime)
                /\ checkpoint_files[mine].notes =
                     (IF last_write = "self" THEN ctx.config.notes
                      ELSE OtherCtx.config.notes)
           ELSE /\ mine # theirs
                /\ { mine, theirs } \subseteq DOMAIN checkpoint_files
                /\ checkpoint_files[mine].notes = ctx.config.notes
                /\ checkpoint_files[mine].id = CheckpointId(MyWriteTime)
                /\ checkpoint_files[theirs].notes = OtherCtx.config.notes
                /\ checkpoint_files[theirs].id =
                     CheckpointId(other_written[1].at)

C14_Witness ==
    /\ BothWrote
    /\ Returned
    /\ MyWriteTime = 1
    /\ other_written[1].at = 1
    /\ last_write = "other"
    /\ checkpoint_files[written[1]].notes = OtherCtx.config.notes
    /\ DOMAIN checkpoint_files = { written[1] }

\* C16: a failed log write or checkpoint write aborts the run where it
\* happens: after it the session appends no log record, writes no file,
\* does not move on (nothing is retried) and run() never returns normally.
C16_FailureAborts ==
    /\ [][error # "none" =>
            UNCHANGED << pc, error, log_file, checkpoint_files,
                         checkpoint_dir_exists, written >>]_vars
    /\ [](error # "none" => ~Returned /\ pc # "done")

C16_Witness ==
    /\ error = "IOError"
    /\ pc = "simulate"
    /\ step = 10
    /\ EventNames = << "session_start", "step" >>

\* C17: the log file is append-only: a step of the session leaves it as it
\* is or adds exactly one record at its end, every earlier record (those of
\* the file before the session started included) keeping content and place.
C17_AppendOnly ==
    [][ \/ log_file' = log_file
        \/ /\ Len(log_file') = Len(log_file) + 1
           /\ SubSeq(log_file', 1, Len(log_file)) = log_file ]_vars

C17_Witness ==
    /\ Returned
    /\ log_base = 3
    /\ SubSeq(log_file, 1, 3) = PriorLog
    /\ Len(log_file) = 8

\* The first device-list entry names an accelerator and one is available.
AcceleratorGranted ==
    /\ Len(ctx.devices) > 0
    /\ StartsWith(ctx.devices[1], Cuda)
    /\ cuda_available

\* The ordinal written after "cuda:" in a device name, "0" when there is
\* none.
OrdinalOf(d) ==
    IF Len(d) > Len(Cuda) + 1 /\ d[Len(Cuda) + 1] = ":"
    THEN SubSeq(d, Len(Cuda) + 2, Len(d))
    ELSE << "0" >>

\* C18: device binding looks at the first device-list entry only: when it
\* names an accelerator and one is available, CUDA_VISIBLE_DEVICES becomes
\* the ordinal of the entry ("0" without suffix) and execution is on that
\* device; in every other case execution is on the default device and
\* CUDA_VISIBLE_DEVICES is left as it was; the context is never changed.
C18_DeviceBinding ==
    /\ [][ (pc = "torch_setup" /\ (pc' # pc \/ error' # error)) =>
             /\ ctx' = ctx
             /\ IF AcceleratorGranted
                THEN /\ environ' = OrdinalOf(ctx.devices[1])
                     /\ device' = "cuda:0"
                ELSE /\ environ' = environ
                     /\ device' = "cpu" ]_vars
    /\ [][ pc # "torch_setup" =>
             /\ environ' = environ
             /\ device' = device
             /\ pc # "main" => ctx' = ctx ]_vars

C18_Witness ==
    /\ pc = "torch_loop"
    /\ ctx.devices = << Cuda1, Cpu >>
    /\ cuda_available
    /\ environ = << "1" >>
    /\ device = "cuda:0"

\* The number of multiples of 10 in 0..steps-1.
CeilDiv10(steps) == IF steps <= 0 THEN 0 ELSE (steps + 9) \div 10

\* C19: in a run that returns, on either backend, every multiple of 10 in
\* 0 <= k < steps has exactly one step event, there are ceil(steps / 10) step
\* events, and on the simulated path each carries simulated = TRUE.
C19_EveryTenthStepOnce ==
    Returned =>
        /\ \A k \in 0..(ctx.config.steps - 1) :
             k % 10 = 0 =>
                Cardinality({ i \in Positions("step") :
                                 SessionLog[i].payload.step = k }) = 1
        /\ Count("step") = CeilDiv10(ctx.config.steps)
        /\ Simulated => \A r \in StepRecords : r.payload.simulated = TRUE

C19_Witness ==
    /\ Returned
    /\ TORCH_AVAILABLE
    /\ ctx.config.steps = 11
    /\ Count("step") = 2

\* C20: whenever the log holds a checkpoint event, the file named in its
\* payload is in the checkpoint directory, completely written, under the
\* name <id>.meta.json of the id its metadata carries.
C20_CheckpointEventHasFile ==
    \A i \in Positions("checkpoint") :
        LET meta_path == SessionLog[i].payload.meta
        IN /\ checkpoint_dir_exists
           /\ meta_path \in DOMAIN checkpoint_files
           /\ checkpoint_files[meta_path] # Truncated
           /\ meta_path = MetaPath(checkpoint_files[meta_path].id)
           /\ meta_path \in { written[k] : k \in 1..Len(written) }

C20_Witness ==
    /\ pc = "complete"
    /\ now = 1
    /\ Count("checkpoint") = 1
    /\ MetaPath(CheckpointId(1)) \in DOMAIN checkpoint_files
    /\ checkpoint_files[MetaPath(CheckpointId(1))].id = CheckpointId(1)

====
